---------------------------- MODULE Spec2Model ----------------------------
(***************************************************************************)
(* Model of github.com/abiiranathan/dbresolver: a registry of database     *)
(* connections keyed by database name, built once by New from a            *)
(* DatabaseConfig (API key -> {driver, database}), a middleware that       *)
(* resolves each request's API key to a connection and binds it to the     *)
(* request context, and AutoMigrate over every connection.                 *)
(***************************************************************************)
EXTENDS Naturals, Sequences, FiniteSets, TLC

VARIABLES
    apiKeyHeader,   \* dbresolver.go:16, the package-level header/query name
    config,         \* the DatabaseConfig handed to New
    openFails,      \* environment: databases on which gorm.Open fails
    newResult,      \* "none" | "ok" | "error" | "panic": how New(config) ended
    newErr,         \* the error New returned (<<>> when none)
    resolver,       \* the *DBResolver New returned: [isNil, conns]
    opens,          \* number of gorm.Open calls made per database
    mig,            \* the last AutoMigrate run
    reqs            \* the requests in flight, one record per slot

vars == <<apiKeyHeader, config, openFails, newResult, newErr, resolver, opens, mig, reqs>>

----------------------------------------------------------------------------
(* Bounds and universes of inputs *)

\* number of request slots that may be in flight at once
MaxReq == 2

\* API keys that may appear as keys of the configuration
Keys == {"", "k1", "k2"}

\* database names (connection strings) that may appear in the configuration
Databases == {"a.db", "b.db"}

\* the three Driver constants of dbresolver.go
Sqlite == "sqlite"
MySQL == "mysql"
Postgres == "postgres"

\* driver strings a configuration may carry: the supported ones and one that is not
DriverNames == {Sqlite, MySQL, Postgres, "oracle"}

\* names SetHeaderName may be given (the default and the README's)
HeaderNames == {"x-api-key", "apikey"}

\* values a request may carry in a header or a query parameter
KeyValues == {"k1", "k2", "zz"}

\* values a request may carry in its header when requests are served concurrently
ConcValues == {"k1", "k2"}

\* the configuration keys of one tenant entry
EntryKeys == {"driver", "database"}

\* every map[string]string over the two entry keys, either key possibly missing
Entries ==
    UNION { { e \in [S -> DriverNames \cup Databases] :
                /\ ("driver" \in S => e["driver"] \in DriverNames)
                /\ ("database" \in S => e["database"] \in Databases) }
            : S \in SUBSET EntryKeys }

\* every DatabaseConfig over Keys
Configs == UNION { [K -> Entries] : K \in SUBSET Keys }

\* all orders in which a Go map with key set S may be iterated
Perms(S) ==
    { s \in [1..Cardinality(S) -> S] :
        \A i, j \in 1..Cardinality(S) : i # j => s[i] # s[j] }

----------------------------------------------------------------------------
(* Values *)

NoErr == <<>>

\* a *gorm.DB: pointer identity is (database, ordinal of the Open call on it)
Handle(d, n) == [db |-> d, n |-> n]
NoHandle == [db |-> "", n |-> 0]

EmptyConns == [d \in {} |-> NoHandle]
NilResolver == [isNil |-> TRUE, conns |-> EmptyConns]
ZeroOpens == [d \in Databases |-> 0]

NoMig == [result |-> "none", attempted |-> <<>>, failing |-> {}, tolerate |-> {}]

----------------------------------------------------------------------------
(* config.go: DatabaseDrivers *)

DBDriver(driver, database) == [Driver |-> driver, Database |-> database]

\* the loop of DatabaseDrivers over the map in iteration order `order`,
\* from position i with the slice built so far
RECURSIVE DatabaseDriversFrom(_, _, _, _)
DatabaseDriversFrom(dbconfig, order, i, databaseNames) ==
    IF i > Len(order) THEN [panic |-> NoErr, list |-> databaseNames]
    ELSE LET dbmap == dbconfig[order[i]] IN
         IF "driver" \notin DOMAIN dbmap
         THEN [panic |-> <<"driver not specified in configuration file">>, list |-> <<>>]
         ELSE IF "database" \notin DOMAIN dbmap
         THEN [panic |-> <<"database key not specified in configuration file">>, list |-> <<>>]
         ELSE DatabaseDriversFrom(dbconfig, order, i + 1,
                  Append(databaseNames, DBDriver(dbmap["driver"], dbmap["database"])))

DatabaseDrivers(dbconfig, order) == DatabaseDriversFrom(dbconfig, order, 1, <<>>)

----------------------------------------------------------------------------
(* dbresolver.go: New *)

\* the switch of New: the drivers that select a dialect
SupportedDriver(driver) == driver \in {Sqlite, MySQL, Postgres}

\* createDB: gorm.Open on the dialect; fails on the databases of `fails`
createDB(database, fails) ==
    IF database \in fails THEN <<"open failed", database>> ELSE NoErr

\* the state of New's loop: the registry so far and the Open calls made
NewState(conns, opened) == [conns |-> conns, opened |-> opened, err |-> NoErr, ok |-> TRUE]

\* NewStep with the `return nil, err` after createDB dropped: a failed Open is
\* skipped and the loop goes on
NewStepSkipErr(st, dbDriver, fails) ==
    LET database == dbDriver.Database IN
    IF ~SupportedDriver(dbDriver.Driver)
    THEN [st EXCEPT !.ok = FALSE,
                    !.err = <<"unsupported database driver", dbDriver.Driver>>]
    ELSE LET n == st.opened[database] + 1 IN
         IF createDB(database, fails) # NoErr
         THEN [st EXCEPT !.opened = [st.opened EXCEPT ![database] = n]]
         ELSE [st EXCEPT !.opened = [st.opened EXCEPT ![database] = n],
                         !.conns = (database :> Handle(database, n)) @@ st.conns]

\* the body of New's loop for one DBDriver
NewStep(st, dbDriver, fails) ==
    LET database == dbDriver.Database IN
    IF ~SupportedDriver(dbDriver.Driver)
    THEN [st EXCEPT !.ok = FALSE,
                    !.err = <<"unsupported database driver", dbDriver.Driver>>]
    ELSE LET n == st.opened[database] + 1
             err == createDB(database, fails)
         IN IF err # NoErr
            THEN [st EXCEPT !.ok = FALSE, !.err = err,
                            !.opened = [st.opened EXCEPT ![database] = n]]
            ELSE [st EXCEPT !.opened = [st.opened EXCEPT ![database] = n],
                            !.conns = (database :> Handle(database, n)) @@ st.conns]

\* New's loop over the slice DatabaseDrivers returned; stops at the first error
RECURSIVE NewLoop(_, _, _, _)
NewLoop(st, list, i, fails) ==
    IF i > Len(list) \/ ~st.ok THEN st
    ELSE NewLoop(NewStep(st, list[i], fails), list, i + 1, fails)

\* New(c): panics inside DatabaseDrivers, returns (nil, err), or returns (resolver, nil)
New ==
    /\ newResult = "none"
    /\ \E order \in Perms(DOMAIN config) :
         LET dd == DatabaseDrivers(config, order) IN
         IF dd.panic # NoErr
         THEN /\ newResult' = "panic"
              /\ newErr' = dd.panic
              /\ UNCHANGED <<resolver, opens>>
         ELSE LET st == NewLoop(NewState(EmptyConns, opens), dd.list, 1, openFails) IN
              /\ opens' = st.opened
              /\ newErr' = st.err
              /\ IF st.ok
                 THEN /\ newResult' = "ok"
                      /\ resolver' = [isNil |-> FALSE, conns |-> st.conns]
                 ELSE /\ newResult' = "error"
                      /\ resolver' = NilResolver
    /\ UNCHANGED <<apiKeyHeader, config, openFails, mig, reqs>>

----------------------------------------------------------------------------
(* dbresolver.go: SetHeaderName *)

NoRequestYet == \A i \in DOMAIN reqs : reqs[i].pc = "idle"

\* SetHeaderName(name); called during startup, before any request is served
SetHeaderName ==
    /\ NoRequestYet
    /\ \E name \in HeaderNames :
         /\ name # apiKeyHeader
         /\ apiKeyHeader' = name
    /\ UNCHANGED <<config, openFails, newResult, newErr, resolver, opens, mig, reqs>>

----------------------------------------------------------------------------
(* dbresolver.go: AutoMigrate *)

\* the loop of AutoMigrate over resolver.conns in iteration order `order`:
\* conn.AutoMigrate fails on the databases of `failing`; errorCallback, called
\* on those errors only, returns true exactly on the errors of `tolerate`
RECURSIVE AutoMigrateFrom(_, _, _, _, _)
AutoMigrateFrom(order, i, failing, tolerate, attempted) ==
    IF i > Len(order)
    THEN [result |-> "returned", attempted |-> attempted]
    ELSE LET d == order[i]
             err == d \in failing
             done == Append(attempted, d)
         IN IF err /\ d \in tolerate
            THEN [result |-> "panicked", attempted |-> done]
            ELSE AutoMigrateFrom(order, i + 1, failing, tolerate, done)

AutoMigrate ==
    /\ ~resolver.isNil
    /\ \E order \in Perms(DOMAIN resolver.conns) :
       \E failing \in SUBSET DOMAIN resolver.conns :
       \E tolerate \in SUBSET failing :
         LET r == AutoMigrateFrom(order, 1, failing, tolerate, <<>>) IN
         mig' = [result |-> r.result, attempted |-> r.attempted,
                 failing |-> failing, tolerate |-> tolerate]
    /\ UNCHANGED <<apiKeyHeader, config, openFails, newResult, newErr, resolver, opens, reqs>>

----------------------------------------------------------------------------
(* dbresolver.go: resolveConnection, resolveDatabaseName *)

\* resolveConnection looking the connection up under the API key instead of
\* the database name
resolveConnectionByKey(conns, cfg, apiKey) ==
    IF apiKey \notin DOMAIN cfg
    THEN [conn |-> NoHandle, err |-> <<"no database configuration found for API key", apiKey>>]
    ELSE IF "database" \notin DOMAIN cfg[apiKey]
    THEN [conn |-> NoHandle, err |-> <<"no database found for API key", apiKey>>]
    ELSE IF apiKey \notin DOMAIN conns
         THEN [conn |-> NoHandle, err |-> <<"no valid connection exists for API key", apiKey>>]
         ELSE [conn |-> conns[apiKey], err |-> NoErr]

\* resolveConnection(apiKey) on a resolver holding conns `conns` and databaseConfig `cfg`
resolveConnection(conns, cfg, apiKey) ==
    IF apiKey \notin DOMAIN cfg
    THEN [conn |-> NoHandle, err |-> <<"no database configuration found for API key", apiKey>>]
    ELSE IF "database" \notin DOMAIN cfg[apiKey]
    THEN [conn |-> NoHandle, err |-> <<"no database found for API key", apiKey>>]
    ELSE LET databaseName == cfg[apiKey]["database"] IN
         IF databaseName \notin DOMAIN conns
         THEN [conn |-> NoHandle, err |-> <<"no valid connection exists for API key", apiKey>>]
         ELSE [conn |-> conns[databaseName], err |-> NoErr]

\* resolveDatabaseName(apiKey)
resolveDatabaseName(cfg, apiKey) ==
    IF apiKey \notin DOMAIN cfg
    THEN [name |-> "", err |-> <<"no database configuration found for API key", apiKey>>]
    ELSE IF "database" \notin DOMAIN cfg[apiKey]
    THEN [name |-> "", err |-> <<"no database found for API key", apiKey>>]
    ELSE [name |-> cfg[apiKey]["database"], err |-> NoErr]

----------------------------------------------------------------------------
(* dbresolver.go: request context, DB, DBName *)

ConnectionContextKey == "connection"
DatabaseContextKey == "database"

\* r.Context() of an incoming request: no value under either key
EmptyCtx == [k \in {} |-> ""]

\* context.WithValue(ctx, key, val): the innermost binding of a key wins
WithValue(ctx, key, val) == (key :> val) @@ ctx

\* resolver.DB(r): the type assertion panics when no connection is bound
DB(ctx) ==
    IF ConnectionContextKey \in DOMAIN ctx
    THEN [panic |-> FALSE, db |-> ctx[ConnectionContextKey]]
    ELSE [panic |-> TRUE, db |-> NoHandle]

\* resolver.DBName(r): the type assertion panics when no name is bound
DBName(ctx) ==
    IF DatabaseContextKey \in DOMAIN ctx
    THEN [panic |-> FALSE, name |-> ctx[DatabaseContextKey]]
    ELSE [panic |-> TRUE, name |-> ""]

----------------------------------------------------------------------------
(* dbresolver.go: Middleware, one request per slot *)

StatusInternalServerError == 500
StatusOK == 200

\* a request slot: the request's header and query values under each name, the
\* handler closure's locals (apiKey, db, ctx), the response written, and what
\* the downstream handler was given
IdleReq ==
    [pc |-> "idle",
     hdr |-> [n \in HeaderNames |-> ""], qry |-> [n \in HeaderNames |-> ""],
     apiKey |-> "", db |-> NoHandle, ctx |-> EmptyCtx,
     status |-> 0, body |-> NoErr,
     nextCalls |-> 0, seenDB |-> NoHandle, seenName |-> ""]

\* a header (or query) map carrying at most one of the names, with a value of vals
FieldMaps(vals) ==
    { [n \in HeaderNames |-> ""] } \cup
    { [n \in HeaderNames |-> IF n = m THEN v ELSE ""] : m \in HeaderNames, v \in vals }

\* the requests a client may send
Requests(hvals, qvals) ==
    { [hdr |-> h, qry |-> q] : h \in FieldMaps(hvals), q \in FieldMaps(qvals) }

\* the requests sent when requests are served one after another
ServeRequests == Requests(KeyValues, KeyValues)

\* the requests sent when requests are served concurrently: header only
ConcRequests == Requests(ConcValues, {})

\* a request reaches the handler the middleware returned
Arrive(i, inputs) ==
    /\ ~resolver.isNil
    /\ reqs[i].pc \in {"idle", "done"}
    /\ \E r \in inputs :
         reqs' = [reqs EXCEPT ![i] = [IdleReq EXCEPT !.pc = "start", !.hdr = r.hdr, !.qry = r.qry]]
    /\ UNCHANGED <<apiKeyHeader, config, openFails, newResult, newErr, resolver, opens, mig>>

\* RequestKey without the fall-back to the query parameter
RequestKeyHeaderOnly(r, name) == r.hdr[name]

\* lines 152-155: the API key from the header, else from the query
RequestKey(r, name) ==
    IF r.hdr[name] # "" THEN r.hdr[name] ELSE r.qry[name]

ReadKey(i) ==
    /\ reqs[i].pc = "start"
    /\ reqs' = [reqs EXCEPT ![i].apiKey = RequestKey(reqs[i], apiKeyHeader), ![i].pc = "key"]
    /\ UNCHANGED <<apiKeyHeader, config, openFails, newResult, newErr, resolver, opens, mig>>

\* Resolve with the `return` after http.Error dropped: the handler goes on
ResolveFallThrough(i) ==
    /\ reqs[i].pc = "key"
    /\ LET r == resolveConnection(resolver.conns, config, reqs[i].apiKey) IN
       IF r.err # NoErr
       THEN reqs' = [reqs EXCEPT ![i].status = StatusInternalServerError,
                                 ![i].body = r.err, ![i].pc = "resolved"]
       ELSE reqs' = [reqs EXCEPT ![i].db = r.conn, ![i].pc = "resolved"]
    /\ UNCHANGED <<apiKeyHeader, config, openFails, newResult, newErr, resolver, opens, mig>>

\* lines 158-163: resolve the connection; on error answer 500 and return
Resolve(i) ==
    /\ reqs[i].pc = "key"
    /\ LET r == resolveConnection(resolver.conns, config, reqs[i].apiKey) IN
       IF r.err # NoErr
       THEN reqs' = [reqs EXCEPT ![i].status = StatusInternalServerError,
                                 ![i].body = r.err, ![i].pc = "done"]
       ELSE reqs' = [reqs EXCEPT ![i].db = r.conn, ![i].pc = "resolved"]
    /\ UNCHANGED <<apiKeyHeader, config, openFails, newResult, newErr, resolver, opens, mig>>

\* Bind keeping the scope in state shared by the handler's invocations: the
\* binding of request i replaces that of every request bound and not yet served
BindShared(i) ==
    /\ reqs[i].pc = "resolved"
    /\ LET ctx1 == WithValue(EmptyCtx, ConnectionContextKey, reqs[i].db)
           dbname == resolveDatabaseName(config, reqs[i].apiKey).name
           ctx2 == WithValue(ctx1, DatabaseContextKey, dbname)
       IN reqs' = [j \in DOMAIN reqs |->
                     IF j = i THEN [reqs[j] EXCEPT !.ctx = ctx2, !.pc = "bound"]
                     ELSE IF reqs[j].pc = "bound" THEN [reqs[j] EXCEPT !.ctx = ctx2]
                     ELSE reqs[j]]
    /\ UNCHANGED <<apiKeyHeader, config, openFails, newResult, newErr, resolver, opens, mig>>

\* lines 166-171: a fresh context holding the connection and the database name
Bind(i) ==
    /\ reqs[i].pc = "resolved"
    /\ LET ctx1 == WithValue(EmptyCtx, ConnectionContextKey, reqs[i].db)
           dbname == resolveDatabaseName(config, reqs[i].apiKey).name
       IN reqs' = [reqs EXCEPT ![i].ctx = WithValue(ctx1, DatabaseContextKey, dbname),
                               ![i].pc = "bound"]
    /\ UNCHANGED <<apiKeyHeader, config, openFails, newResult, newErr, resolver, opens, mig>>

\* line 174: next.ServeHTTP(w, r.WithContext(ctx)); the downstream handler reads
\* resolver.DB(r) and resolver.DBName(r) and answers
Serve(i) ==
    /\ reqs[i].pc = "bound"
    /\ LET db == DB(reqs[i].ctx)
           name == DBName(reqs[i].ctx)
       IN reqs' = [reqs EXCEPT ![i].nextCalls = @ + 1,
                               ![i].seenDB = db.db,
                               ![i].seenName = name.name,
                               ![i].status = IF db.panic \/ name.panic THEN 0 ELSE StatusOK,
                               ![i].pc = "done"]
    /\ UNCHANGED <<apiKeyHeader, config, openFails, newResult, newErr, resolver, opens, mig>>

----------------------------------------------------------------------------
(* Specifications *)

InitWith(cfgs) ==
    /\ apiKeyHeader = "x-api-key"
    /\ config \in cfgs
    /\ openFails \in SUBSET Databases
    /\ newResult = "none"
    /\ newErr = NoErr
    /\ resolver = NilResolver
    /\ opens = ZeroOpens
    /\ mig = NoMig
    /\ reqs = [i \in 1..MaxReq |-> IdleReq]

\* startup: every configuration over Keys, then New and AutoMigrate
Init == InitWith(Configs)

Next ==
    \/ SetHeaderName
    \/ New
    \/ AutoMigrate

Spec == Init /\ [][Next]_vars

\* the configurations whose entries all carry a supported driver and a database
ServeEntries ==
    { [driver |-> Sqlite, database |-> "a.db"], [driver |-> Postgres, database |-> "b.db"] }

ServeConfigs == UNION { [K -> ServeEntries] : K \in SUBSET Keys }

\* serving: startup, then requests handled one after another in one slot,
\* interleaved with AutoMigrate calls
InitServe == InitWith(ServeConfigs)

NextServe ==
    \/ SetHeaderName
    \/ New
    \/ AutoMigrate
    \/ Arrive(1, ServeRequests)
    \/ ReadKey(1)
    \/ Resolve(1)
    \/ Bind(1)
    \/ Serve(1)

SpecServe == InitServe /\ [][NextServe]_vars

\* concurrent serving: MaxReq requests in flight, their steps interleaved
NextConc ==
    \/ SetHeaderName
    \/ New
    \/ \E i \in 1..MaxReq :
         \/ Arrive(i, ConcRequests)
         \/ ReadKey(i)
         \/ Resolve(i)
         \/ Bind(i)
         \/ Serve(i)

SpecConc == InitServe /\ [][NextConc]_vars

----------------------------------------------------------------------------
(* Properties *)

\* the tenant identifier of a request: the configured header when non-empty,
\* otherwise the query parameter of the configured name
TenantOf(r) == IF r.hdr[apiKeyHeader] # "" THEN r.hdr[apiKeyHeader] ELSE r.qry[apiKeyHeader]

MigRan == mig.result # "none"

\* C1: a migration failure on which the callback returns true is tolerated:
\* AutoMigrate does not panic there and goes on; when the callback returns true
\* on every failure, AutoMigrate returns after attempting every connection.
C1_ToleratedFailureContinues ==
    MigRan =>
      /\ \A p \in 1..Len(mig.attempted) :
           (mig.attempted[p] \in mig.failing /\ mig.attempted[p] \in mig.tolerate)
             => ~(mig.result = "panicked" /\ p = Len(mig.attempted))
      /\ (mig.failing \subseteq mig.tolerate)
           => /\ mig.result = "returned"
              /\ Len(mig.attempted) = Cardinality(DOMAIN resolver.conns)

\* C2: at the first migration failure on which the callback returns false,
\* AutoMigrate panics and attempts no further backend.
C2_RejectedFailureAborts ==
    MigRan =>
      \A p \in 1..Len(mig.attempted) :
        (mig.attempted[p] \in mig.failing /\ mig.attempted[p] \notin mig.tolerate)
          => /\ mig.result = "panicked"
             /\ p = Len(mig.attempted)

\* C3: New makes exactly one Open call per distinct database of the
\* configuration, however many tenants declare it.
C3_OneOpenPerDatabase ==
    newResult = "ok" =>
      \A T \in DOMAIN config : opens[config[T]["database"]] = 1

C5_MissingKeyIsError ==
    (/\ newResult # "none"
     /\ \E T \in DOMAIN config : ~(EntryKeys \subseteq DOMAIN config[T]))
      => /\ newResult = "error"
         /\ newErr # NoErr
         /\ resolver.isNil

\* C6: a request whose tenant identifier does not resolve (as every identifier
\* with no configuration entry, the unknown-tenant error) is answered 500 with
\* the resolver's error as body, and the downstream handler is never invoked.
C6_UnresolvedRejected ==
    \A i \in DOMAIN reqs :
      LET r == reqs[i]
          T == TenantOf(r)
          rc == resolveConnection(resolver.conns, config, T)
      IN
      /\ (r.pc # "idle" /\ T \notin DOMAIN config)
           => rc.err = <<"no database configuration found for API key", T>>
      /\ (r.pc # "idle" /\ rc.err # NoErr) =>
           /\ r.nextCalls = 0
           /\ r.pc \in {"start", "key", "done"}
           /\ r.ctx = EmptyCtx
           /\ r.pc = "done" =>
                /\ r.status = StatusInternalServerError
                /\ r.body = rc.err

\* C6 witness: a request for an unknown tenant has been answered
C6_Witness ==
    \E i \in DOMAIN reqs :
      /\ reqs[i].pc = "done"
      /\ TenantOf(reqs[i]) = "zz"
      /\ reqs[i].status = StatusInternalServerError

\* C7: a request whose tenant identifier is in the configuration reaches the
\* downstream handler exactly once, and there DBName(r) is the tenant's database
\* and DB(r) the registry's handle for that database.
C7_BoundToOwnTenant ==
    \A i \in DOMAIN reqs :
      LET r == reqs[i] IN
      (r.pc # "idle" /\ TenantOf(r) \in DOMAIN config) =>
        LET d == config[TenantOf(r)]["database"] IN
        /\ r.nextCalls = (IF r.pc = "done" THEN 1 ELSE 0)
        /\ r.pc = "done" =>
             /\ r.seenName = d
             /\ r.seenDB = resolver.conns[d]
             /\ r.status = StatusOK

\* C7 witness: a request identified by the query parameter alone, under a
\* header name set by SetHeaderName, has been served
C7_Witness ==
    \E i \in DOMAIN reqs :
      /\ reqs[i].pc = "done"
      /\ apiKeyHeader = "apikey"
      /\ reqs[i].hdr[apiKeyHeader] = ""
      /\ reqs[i].qry[apiKeyHeader] = "k2"
      /\ "k2" \in DOMAIN config
      /\ reqs[i].nextCalls = 1

\* C8: an empty tenant identifier never resolves: a request with neither the
\* header nor the query parameter gets no handle, is answered 500 and never
\* reaches the downstream handler.
C8_EmptyNeverResolves ==
    \A i \in DOMAIN reqs :
      LET r == reqs[i] IN
      (r.pc # "idle" /\ r.hdr[apiKeyHeader] = "" /\ r.qry[apiKeyHeader] = "") =>
        /\ r.db = NoHandle
        /\ r.nextCalls = 0
        /\ r.pc = "done" => r.status = StatusInternalServerError

\* what resolveConnection returns for every tenant of the configuration
Resolved == [T \in DOMAIN config |-> resolveConnection(resolver.conns, config, T)]

C9_Inv ==
    ~resolver.isNil =>
      \A T1 \in DOMAIN config :
        /\ Resolved[T1].err = NoErr
        /\ Resolved[T1].conn # NoHandle
        /\ Resolved[T1].conn.db = config[T1]["database"]
        /\ \A T2 \in DOMAIN config :
             config[T1]["database"] = config[T2]["database"]
               => Resolved[T1].conn = Resolved[T2].conn

\* C9: once New has succeeded, resolveConnection(T) returns for every tenant T
\* without error a handle fixed by T's database: the same at every later step,
\* and the same for tenants of the same database.
C9_FixedHandle ==
    /\ []C9_Inv
    /\ [][~resolver.isNil => Resolved' = Resolved]_vars

\* C9 witness: two tenants of one database, after an AutoMigrate call and a
\* served request
C9_Witness ==
    /\ ~resolver.isNil
    /\ {"k1", "k2"} \subseteq DOMAIN config
    /\ config["k1"]["database"] = config["k2"]["database"]
    /\ MigRan
    /\ reqs[1].pc = "done"

\* what the downstream handler of a served request must have seen
OwnScope(r) ==
    LET d == config[TenantOf(r)]["database"] IN
    [connection |-> resolver.conns[d], database |-> d]

C10_Inv ==
    \A i \in DOMAIN reqs :
      LET r == reqs[i] IN
      /\ r.pc = "bound" => r.ctx = OwnScope(r)
      /\ r.nextCalls > 0 => (r.seenDB = OwnScope(r).connection /\ r.seenName = OwnScope(r).database)

\* C10: with requests interleaved in any way, each downstream handler sees the
\* handle and name of its own request's tenant, and a step of one request
\* changes neither the registry, the configuration, nor another request.
C10_RequestLocal ==
    /\ []C10_Inv
    /\ [][\A i \in DOMAIN reqs :
            reqs'[i] # reqs[i] =>
              /\ resolver' = resolver
              /\ config' = config
              /\ apiKeyHeader' = apiKeyHeader
              /\ \A j \in DOMAIN reqs : j # i => reqs'[j] = reqs[j]]_vars

\* C10 witness: two requests of tenants of different databases in flight at
\* once, one bound and the other already served
C10_Witness ==
    \E i, j \in DOMAIN reqs :
      /\ i # j
      /\ reqs[i].pc = "bound"
      /\ reqs[j].pc = "done"
      /\ reqs[j].nextCalls = 1
      /\ reqs[j].seenDB # reqs[i].ctx[ConnectionContextKey]

=============================================================================
